---- MODULE Spec2Model ----
(***************************************************************************)
(* Maximo Work Actuals Export (src/pge_test_script.js).                     *)
(*                                                                         *)
(* The model follows one run of the export: main() calls                   *)
(* processExportRecords, which asks the incremental-export collaborator    *)
(* for the batch of changed time entries, walks the batch once, sums the   *)
(* entries of the current group in a WorkActualsData table, and writes     *)
(* the table to the file writer whenever one of the GROUP_FIELDS changes   *)
(* and once more after the loop.                                           *)
(*                                                                         *)
(* Conventions of the model:                                               *)
(*  - A batch record is a TLA+ record whose fields carry the upper-case    *)
(*    column names.  The script reads the same columns under both casings  *)
(*    (Record.LD1 / Record.ld1, Record.EFF_RATE / Record.eff_rate); the    *)
(*    host's record type resolves both to one column, so the model has     *)
(*    one field per column.                                                *)
(*  - Strings that the code takes apart (the field work order) are         *)
(*    sequences of one-character strings.                                  *)
(*  - Hours and rates are integers.                                        *)
(*  - payCodeSet and unionCodeMap are globals read by the loop.  They are  *)
(*    inputs of processExportRecords: the model draws them when the run    *)
(*    starts, the unset global that isUnionCodeNull tests for included.    *)
(*  - The aggregates and the rows carry two history fields, srcIndex and   *)
(*    srcSynthetic, that record which batch entry created the aggregate    *)
(*    and whether the recursive call of addData did; no code reads them.   *)
(*    The aggregates carry a third, folds, that counts the records added   *)
(*    to the aggregate.                                                    *)
(***************************************************************************)
EXTENDS Integers, Sequences, FiniteSets, TLC

(***************************************************************************)
(* Bounds of the model.                                                    *)
(***************************************************************************)
\* Longest batch returned by getExportDetails.
MaxLen == 4

(***************************************************************************)
(* Program constants (lines 28-49).                                        *)
(***************************************************************************)
DOUBLE_RATE_PAY_CODES == {"GOLDEN_TIME", "HIGH_TIME", "PREMIUM_UPGRADE_PAY"}

GROUP_FIELDS == <<"DISPLAY_EMPLOYEE", "WORK_DT", "LD1", "PAY_CODE", "EFF_RATE", "LD8">>

VALID_FWO_PREFIXES == {"M", "F"}

\* The pay code of the adjusting record built by addData (line 131).
WORKED_ALLOCATED_REG == "WORKED_ALLOCATED_REG"

\* orderFields of filterAndSortBatchRecords (line 302).
OrderFields == <<"DISPLAY_EMPLOYEE", "ASGNMT", "WORK_DT", "PAY_CODE", "LD8", "LD1", "EFF_RATE">>

(***************************************************************************)
(* Values of the model.                                                    *)
(***************************************************************************)
\* No exception is pending.
Null == "null"

\* The global unionCodeMap before anything is assigned to it: falsy in the
\* test of line 289.
NoMap == [constructed |-> FALSE]

M100 == <<"M", "1", "0", "0">>
f200 == <<"f", "2", "0", "0">>
X123 == <<"X", "1", "2", "3">>

\* The LD1 column of a time entry that has no field work order: null.
NoWorkOrder == <<Null>>

WorkDate == [y |-> 2024, m |-> 1, d |-> 2]

JobCode == "JC1"

\* The time entries a batch is drawn from.  Employee E1 holds the
\* assignments 1 and 2, employee E2 holds assignment 3; one entry of E1 has
\* no work order.
EntryKeys ==
    [DISPLAY_EMPLOYEE : {"E1"}, ASGNMT : {1}, WORK_DT : {WorkDate},
     PAY_CODE : {"GOLDEN_TIME", "REG", WORKED_ALLOCATED_REG},
     LD8 : {JobCode}, LD1 : {M100}, EFF_RATE : {40}]
  \cup
    [DISPLAY_EMPLOYEE : {"E1"}, ASGNMT : {2}, WORK_DT : {WorkDate},
     PAY_CODE : {"GOLDEN_TIME"},
     LD8 : {JobCode}, LD1 : {M100}, EFF_RATE : {40}]
  \cup
    [DISPLAY_EMPLOYEE : {"E1"}, ASGNMT : {1}, WORK_DT : {WorkDate},
     PAY_CODE : {"REG"},
     LD8 : {JobCode}, LD1 : {NoWorkOrder}, EFF_RATE : {40}]
  \cup
    [DISPLAY_EMPLOYEE : {"E2"}, ASGNMT : {3}, WORK_DT : {WorkDate},
     PAY_CODE : {"HIGH_TIME", "REG"},
     LD8 : {JobCode}, LD1 : {f200}, EFF_RATE : {50}]
  \cup
    [DISPLAY_EMPLOYEE : {"E2"}, ASGNMT : {3}, WORK_DT : {WorkDate},
     PAY_CODE : {"REG"},
     LD8 : {JobCode}, LD1 : {X123}, EFF_RATE : {50}]

\* HOURS and UNIT9 (transit time) of an entry: an entry with transit time
\* and its retraction (negateNumericFields, line 69).
HoursAndTransit == {<<8, 2>>, <<-8, -2>>}

\* The GOLDEN_TIME and REG entries of E1 for work order M100 come with their
\* retraction, every other entry as first reported.
HoursAndTransitOf(k) ==
    IF k.LD1 = M100 /\ k.PAY_CODE \in {"GOLDEN_TIME", "REG"}
    THEN HoursAndTransit ELSE {<<8, 2>>}

Entries ==
    UNION { { [DISPLAY_EMPLOYEE |-> k.DISPLAY_EMPLOYEE, ASGNMT |-> k.ASGNMT,
               WORK_DT |-> k.WORK_DT, PAY_CODE |-> k.PAY_CODE, LD8 |-> k.LD8,
               LD1 |-> k.LD1, EFF_RATE |-> k.EFF_RATE,
               HOURS |-> h[1], UNIT9 |-> h[2]] : h \in HoursAndTransitOf(k) }
            : k \in EntryKeys }

\* The pay code sets getPoliciesInSet may return (line 338).
PayCodeSets ==
    { {"GOLDEN_TIME", "HIGH_TIME", "REG", WORKED_ALLOCATED_REG},
      {"GOLDEN_TIME", "HIGH_TIME", "REG"} }

\* The maps buildUnionCodeMap may return (lines 263-280): E2 has an empty
\* union code, or no employee record at all.
UnionCodeMaps ==
    { [constructed |-> TRUE,
       codes |-> [e \in {"E1", "E2"} |-> IF e = "E1" THEN "U1" ELSE ""]],
      [constructed |-> TRUE,
       codes |-> [e \in {"E1"} |-> "U1"]] }

(***************************************************************************)
(* The order in which getExportDetails returns the batch (lines 300-306).  *)
(***************************************************************************)
\* Position of a column value in the collaborator's ordering of that column.
Rank(field, v) ==
    CASE field = "DISPLAY_EMPLOYEE" -> IF v = "E1" THEN 1 ELSE 2
      [] field = "ASGNMT" -> v
      [] field = "WORK_DT" -> (v.y * 12 + v.m) * 31 + v.d
      [] field = "PAY_CODE" ->
            ( CASE v = "GOLDEN_TIME" -> 1
                [] v = "HIGH_TIME" -> 2
                [] v = "PREMIUM_UPGRADE_PAY" -> 3
                [] v = "REG" -> 4
                [] OTHER -> 5 )
      [] field = "LD8" -> 1
      [] field = "LD1" ->
            ( CASE v = NoWorkOrder -> 0
                [] v = M100 -> 1
                [] v = X123 -> 2
                [] OTHER -> 3 )
      [] field = "EFF_RATE" -> v

RECURSIVE OrderedFrom(_, _, _)
\* a comes before b, or ties with it, on the order fields from position n on.
OrderedFrom(a, b, n) ==
    IF n > Len(OrderFields) THEN TRUE
    ELSE LET f  == OrderFields[n]
             ra == Rank(f, a[f])
             rb == Rank(f, b[f])
         IN  IF ra < rb THEN TRUE
             ELSE IF ra > rb THEN FALSE
             ELSE OrderedFrom(a, b, n + 1)

RECURSIVE SortedBatches(_)
\* The batches of n entries that are ordered by OrderFields.
SortedBatches(n) ==
    IF n = 0 THEN { <<>> }
    ELSE { Append(p[1], p[2]) :
             p \in { q \in SortedBatches(n - 1) \X Entries :
                       n = 1 \/ OrderedFrom(q[1][n - 1], q[2], 1) } }

Batches == UNION { SortedBatches(n) : n \in 0..MaxLen }

(***************************************************************************)
(* Formatting done by writeData (lines 144-151).                           *)
(***************************************************************************)
\* formatNumber(x, "#0.00"): the sign, the integer digits and two decimals.
FormatNumber(x) ==
    [neg |-> x < 0, int |-> IF x < 0 THEN -x ELSE x, dec |-> <<0, 0>>]

\* WDate.toString("MM/dd/yyyy").
FormatDate(dt) == <<dt.m, "/", dt.d, "/", dt.y>>

\* String.toUpperCase on the one-character strings the model uses.
ToUpperCase(c) ==
    CASE c = "m" -> "M"
      [] c = "f" -> "F"
      [] c = "x" -> "X"
      [] OTHER -> c

(***************************************************************************)
(* WorkActualsData (lines 90-158).  The LookupTable is a sequence of       *)
(* aggregates in the order in which their keys were set.                   *)
(***************************************************************************)
\* WorkActualsData_getMatchKey: the values of the GROUP_FIELDS, in order.
GetMatchKey(record) == [g \in 1..Len(GROUP_FIELDS) |-> record[GROUP_FIELDS[g]]]

ContainsKey(data, matchKey) == \E n \in 1..Len(data) : data[n].key = matchKey

\* Mutant of InitData: the rate of a double-rate pay code is not doubled.
InitDataNoDoubling(record, matchKey, idx, synthetic) ==
    [key          |-> matchKey,
     fwo          |-> record.LD1,
     emplid       |-> record.DISPLAY_EMPLOYEE,
     workDt       |-> record.WORK_DT,
     payCode      |-> record.PAY_CODE,
     rate         |-> record.EFF_RATE,
     jobCode      |-> record.LD8,
     inTransit    |-> 0,
     hours        |-> 0,
     srcIndex     |-> idx,
     srcSynthetic |-> synthetic,
     folds        |-> 0]

\* The object stored for a new key (lines 107-116).
InitData(record, matchKey, idx, synthetic) ==
    [key          |-> matchKey,
     fwo          |-> record.LD1,
     emplid       |-> record.DISPLAY_EMPLOYEE,
     workDt       |-> record.WORK_DT,
     payCode      |-> record.PAY_CODE,
     rate         |-> IF record.PAY_CODE \in DOUBLE_RATE_PAY_CODES
                      THEN 2 * record.EFF_RATE ELSE record.EFF_RATE,
     jobCode      |-> record.LD8,
     inTransit    |-> 0,
     hours        |-> 0,
     srcIndex     |-> idx,
     srcSynthetic |-> synthetic,
     folds        |-> 0]

\* Mutant of Increment: the rate of the record is summed like its hours.
IncrementAddsRate(data, matchKey, record) ==
    [n \in 1..Len(data) |->
        IF data[n].key = matchKey
        THEN [data[n] EXCEPT !.hours = @ + (record.HOURS - record.UNIT9),
                             !.inTransit = @ + record.UNIT9,
                             !.rate = @ + record.EFF_RATE,
                             !.folds = @ + 1]
        ELSE data[n]]

\* Lines 119-122: the hours and the transit time of the record are added to
\* the aggregate stored under matchKey.
Increment(data, matchKey, record) ==
    [n \in 1..Len(data) |->
        IF data[n].key = matchKey
        THEN [data[n] EXCEPT !.hours = @ + (record.HOURS - record.UNIT9),
                             !.inTransit = @ + record.UNIT9,
                             !.folds = @ + 1]
        ELSE data[n]]

\* Mutant of AdjRecord: the adjusting record of a GOLDEN_TIME or HIGH_TIME
\* record is coded PREMIUM_UPGRADE_PAY, itself a double-rate pay code.
AdjRecordPremium(record) ==
    [DISPLAY_EMPLOYEE |-> record.DISPLAY_EMPLOYEE,
     WORK_DT  |-> record.WORK_DT,
     LD1      |-> record.LD1,
     LD8      |-> record.LD8,
     EFF_RATE |-> record.EFF_RATE,
     PAY_CODE |-> IF record.PAY_CODE \in {"GOLDEN_TIME", "HIGH_TIME"}
                  THEN "PREMIUM_UPGRADE_PAY" ELSE WORKED_ALLOCATED_REG,
     HOURS    |-> -1 * (record.HOURS - record.UNIT9),
     UNIT9    |-> -1 * record.UNIT9]

\* The adjusting record of a double-rate record (lines 127-133).
AdjRecord(record) ==
    [DISPLAY_EMPLOYEE |-> record.DISPLAY_EMPLOYEE,
     WORK_DT  |-> record.WORK_DT,
     LD1      |-> record.LD1,
     LD8      |-> record.LD8,
     EFF_RATE |-> record.EFF_RATE,
     PAY_CODE |-> WORKED_ALLOCATED_REG,
     HOURS    |-> -1 * (record.HOURS - record.UNIT9),
     UNIT9    |-> -1 * record.UNIT9]

\* Whether addData builds an adjusting record for the record (line 126).
SpawnsAdjRecord(record) == record.PAY_CODE \in DOUBLE_RATE_PAY_CODES

RECURSIVE AddDataFrom(_, _, _, _)
\* WorkActualsData_addData on the table data; idx and synthetic are history.
\* The history field folds of an aggregate counts the records added to it.
AddDataFrom(data, record, idx, synthetic) ==
    LET matchKey == GetMatchKey(record)
        d1 == IF ContainsKey(data, matchKey) THEN data
              ELSE Append(data, InitData(record, matchKey, idx, synthetic))
        d2 == Increment(d1, matchKey, record)
    IN  IF SpawnsAdjRecord(record)
        THEN AddDataFrom(d2, AdjRecord(record), idx, TRUE)
        ELSE d2

\* summedRecords.addData(Record) as called by the loop (line 241).
AddData(data, record, idx) == AddDataFrom(data, record, idx, FALSE)

\* Mutant of SkipsRow: the test of line 141 is missing (the script before
\* v1.1).
SkipsNoRow(agg) == FALSE

\* Line 141: an aggregate that sums to zero hours is not written.
SkipsRow(agg) == agg.hours = 0

\* The row writeData appends and writes for one aggregate (lines 144-152).
Row(agg) ==
    [HOURS     |-> FormatNumber(agg.hours),
     FWO       |-> agg.fwo,
     EMPLID    |-> agg.emplid,
     WORK_DATE |-> FormatDate(agg.workDt),
     PAY_CODE  |-> agg.payCode,
     RATE      |-> FormatNumber(agg.rate),
     JOB_CODE  |-> agg.jobCode,
     INTRANSIT |-> agg.inTransit,
     srcIndex     |-> agg.srcIndex,
     srcSynthetic |-> agg.srcSynthetic]

RECURSIVE WriteDataFrom(_, _)
\* The rows written for the aggregates n.. of the key array.
WriteDataFrom(data, n) ==
    IF n > Len(data) THEN <<>>
    ELSE IF SkipsRow(data[n]) THEN WriteDataFrom(data, n + 1)
    ELSE <<Row(data[n])>> \o WriteDataFrom(data, n + 1)

\* WorkActualsData_writeData: the rows written for the table, in key order.
WriteData(data) == WriteDataFrom(data, 1)

(***************************************************************************)
(* The body of the loop of processExportRecords (lines 209-249).           *)
(***************************************************************************)
\* curData before the first record (lines 196-198): every grouping field is
\* null, which the model writes as the empty tuple.
NoCurData == << >>

\* Lines 213-219: one of the grouping fields differs from curData.  No
\* column of a batch record is null, so every field differs from NoCurData.
GroupingChange(Record, cur) ==
    \/ cur = NoCurData
    \/ \E g \in 1..Len(GROUP_FIELDS) : Record[GROUP_FIELDS[g]] /= cur[g]

\* Line 228: the pay code is in the pay code set to export.
ValidPayCode(Record, payCodes) == Record.PAY_CODE \in payCodes

\* Mutant of ValidPrefix: the first character is compared as it is.
ValidPrefixCaseSensitive(Record) ==
    LET prefix == IF Len(Record.LD1) = 0 THEN ""
                  ELSE SubSeq(Record.LD1, 1, 1)[1]
    IN  prefix \in VALID_FWO_PREFIXES

\* Lines 231-232: the first character of the work order, in upper case,
\* is one of the valid prefixes.
ValidPrefix(Record) ==
    LET prefix == IF Len(Record.LD1) = 0 THEN ""
                  ELSE ToUpperCase(SubSeq(Record.LD1, 1, 1)[1])
    IN  prefix \in VALID_FWO_PREFIXES

\* Line 231: Record.ld1 is null, so calling substr on it raises a TypeError.
PrefixRaises(Record) == Record.LD1 = NoWorkOrder

\* isBlank of the looked-up union code.
IsBlank(code) == code = ""

\* Mutant of IsUnionCodeNull: only a missing employee counts, an empty union
\* code does not.
IsUnionCodeNullAbsentOnly(display_employee, map) ==
    display_employee \notin DOMAIN map.codes

\* isUnionCodeNull for a constructed map (lines 293-294).
IsUnionCodeNull(display_employee, map) ==
    \/ display_employee \notin DOMAIN map.codes
    \/ IsBlank(map.codes[display_employee])

\* Lines 236-239: the record as passed on, its rate zeroed when the union
\* code is null.
OverrideRate(Record, map) ==
    IF IsUnionCodeNull(Record.DISPLAY_EMPLOYEE, map)
    THEN [Record EXCEPT !.EFF_RATE = 0]
    ELSE Record

\* Mutant of AfterGrouping: curData is not updated (lines 223-224 missing).
AfterGroupingStale(st, Record) ==
    IF GroupingChange(Record, st.curData)
    THEN [st EXCEPT !.written = @ \o WriteData(st.summedRecords),
                    !.summedRecords = <<>>]
    ELSE st

\* Mutant of AfterGrouping: the table is not replaced (line 222 missing).
AfterGroupingNoReset(st, Record) ==
    IF GroupingChange(Record, st.curData)
    THEN [st EXCEPT !.written = @ \o WriteData(st.summedRecords),
                    !.curData = GetMatchKey(Record)]
    ELSE st

\* Lines 220-225: the table and the rows after the test for a grouping
\* change, st being the loop's state before the record.
AfterGrouping(st, Record) ==
    IF GroupingChange(Record, st.curData)
    THEN [st EXCEPT !.written = @ \o WriteData(st.summedRecords),
                    !.summedRecords = <<>>,
                    !.curData = GetMatchKey(Record)]
    ELSE st

\* Mutant of LoopBody: the handler of line 244 does not roll the entry back.
LoopBodyNoRollback(st, Record, idx, payCodes, map) ==
    LET g == AfterGrouping(st, Record)
    IN  IF ~ValidPayCode(Record, payCodes) THEN g
        ELSE IF PrefixRaises(Record) THEN g
        ELSE IF ~ValidPrefix(Record) THEN g
        ELSE IF ~map.constructed THEN g
        ELSE [g EXCEPT !.summedRecords =
                          AddData(@, OverrideRate(Record, map), idx)]

\* One pass of the loop body over batch entry idx; st holds curData,
\* summedRecords, the rows written and the entries rolled back.  An
\* exception raised in the try block (the TypeError of line 231, the throw
\* of line 290) is caught at line 244 and the entry is rolled back.
LoopBody(st, Record, idx, payCodes, map) ==
    LET g == AfterGrouping(st, Record)
    IN  IF ~ValidPayCode(Record, payCodes) THEN g
        ELSE IF PrefixRaises(Record)
             THEN [g EXCEPT !.rolledBack = Append(@, idx)]
        ELSE IF ~ValidPrefix(Record) THEN g
        ELSE IF ~map.constructed
             THEN [g EXCEPT !.rolledBack = Append(@, idx)]
        ELSE [g EXCEPT !.summedRecords =
                          AddData(@, OverrideRate(Record, map), idx)]

\* The loop's state before the first record (lines 196-199).
InitialLoopState ==
    [curData |-> NoCurData, summedRecords |-> << >>,
     written |-> << >>, rolledBack |-> << >>]

RECURSIVE LoopFrom(_, _, _, _, _)
\* The loop of lines 206-250 over the entries n.. of the batch, no abort
\* being requested.
LoopFrom(st, batch, n, payCodes, map) ==
    IF n > Len(batch) THEN st
    ELSE LoopFrom(LoopBody(st, batch[n], n, payCodes, map),
                  batch, n + 1, payCodes, map)

\* The rows a run of processExportRecords writes for the batch when no abort
\* is requested: those of the loop, then those of the final writeData
\* (line 252).
RunOutput(batch, payCodes, map) ==
    LET st == LoopFrom(InitialLoopState, batch, 1, payCodes, map)
    IN  st.written \o WriteData(st.summedRecords)

(***************************************************************************)
(* State.                                                                  *)
(***************************************************************************)
VARIABLES
    pc,              \* where the run is: "setup", "compute", "fetch", "loop", "catch", "finally", "done"
    payCodeSet,      \* global payCodeSet (line 338)
    unionCodeMap,    \* global unionCodeMap (line 339)
    exportRecords,   \* the batch returned by getExportDetails (line 202)
    i,               \* index of the next batch entry (line 206)
    curData,         \* grouping fields of the current group (line 196)
    summedRecords,   \* the WorkActualsData table of the current group (line 199)
    written,         \* the rows written to the file writer
    rolledBack,      \* indexes of the entries passed to rollbackRecord (line 247)
    error,           \* the exception that left the try block of main, or Null
    closed,          \* number of calls of writer.close (line 353)
    exportRolledBack \* rollbackExport was called for the batch (line 350)

vars == <<pc, payCodeSet, unionCodeMap, exportRecords, i, curData,
          summedRecords, written, rolledBack, error, closed, exportRolledBack>>

\* The state of main once the writer is constructed (line 330).  The values
\* the two globals hold while processExportRecords runs are drawn here.
Init ==
    /\ pc = "setup"
    /\ payCodeSet \in PayCodeSets
    /\ unionCodeMap \in UnionCodeMaps \cup {NoMap}
    /\ exportRecords = <<>>
    /\ i = 1
    /\ curData = NoCurData
    /\ summedRecords = <<>>
    /\ written = <<>>
    /\ rolledBack = <<>>
    /\ error = Null
    /\ closed = 0
    /\ exportRolledBack = FALSE

\* Lines 335-345: the reference data is loaded, the incremental export API
\* is constructed and processExportRecords is called.
LoadReferenceData ==
    /\ pc = "setup"
    /\ pc' = "compute"
    /\ UNCHANGED <<payCodeSet, unionCodeMap, exportRecords, i, curData,
                   summedRecords, written, rolledBack, error, closed,
                   exportRolledBack>>

\* Lines 335-342: loading the reference data fails; the exception is caught
\* by main before incrExpAPI is assigned (line 344).
LoadReferenceDataFails ==
    /\ pc = "setup"
    /\ pc' = "catch"
    /\ error' = "ConfigurationError"
    /\ UNCHANGED <<payCodeSet, unionCodeMap, exportRecords, i, curData,
                   summedRecords, written, rolledBack, closed,
                   exportRolledBack>>

\* Line 194: computeDifferences returns the batch id.
ComputeDifferences ==
    /\ pc = "compute"
    /\ pc' = "fetch"
    /\ UNCHANGED <<payCodeSet, unionCodeMap, exportRecords, i, curData,
                   summedRecords, written, rolledBack, error, closed,
                   exportRolledBack>>

\* Line 194: computeDifferences fails; the exception leaves
\* processExportRecords and is caught by main.
ComputeDifferencesFails ==
    /\ pc = "compute"
    /\ pc' = "catch"
    /\ error' = "DiffComputationError"
    /\ UNCHANGED <<payCodeSet, unionCodeMap, exportRecords, i, curData,
                   summedRecords, written, rolledBack, closed,
                   exportRolledBack>>

\* Lines 196-205: curData and summedRecords are set up and the ordered batch
\* is fetched.
GetExportDetails ==
    /\ pc = "fetch"
    /\ \E batch \in Batches : exportRecords' = batch
    /\ curData' = NoCurData
    /\ summedRecords' = <<>>
    /\ i' = 1
    /\ pc' = "loop"
    /\ UNCHANGED <<payCodeSet, unionCodeMap, written, rolledBack, error, closed,
                   exportRolledBack>>

\* Mutant of AbortRequested: the abort is looked for at the end of the pass,
\* after the entry has been processed.
AbortRequestedAfterEntry ==
    /\ pc = "loop"
    /\ i <= Len(exportRecords)
    /\ LET st == LoopBody([curData |-> curData, summedRecords |-> summedRecords,
                           written |-> written, rolledBack |-> rolledBack],
                          exportRecords[i], i, payCodeSet, unionCodeMap)
       IN  /\ curData' = st.curData
           /\ summedRecords' = st.summedRecords
           /\ written' = st.written
           /\ rolledBack' = st.rolledBack
    /\ pc' = "catch"
    /\ error' = "AbortRequested"
    /\ UNCHANGED <<payCodeSet, unionCodeMap, exportRecords, i, closed,
                   exportRolledBack>>

\* Mutant of AbortRequested: the table is written before the exception
\* leaves processExportRecords.
AbortRequestedFlushes ==
    /\ pc = "loop"
    /\ i <= Len(exportRecords)
    /\ written' = written \o WriteData(summedRecords)
    /\ pc' = "catch"
    /\ error' = "AbortRequested"
    /\ UNCHANGED <<payCodeSet, unionCodeMap, exportRecords, i, curData,
                   summedRecords, rolledBack, closed, exportRolledBack>>

\* Line 207: an abort was requested; throwIfAbortRequested throws outside the
\* try block of the loop, so the exception is caught by main.
AbortRequested ==
    /\ pc = "loop"
    /\ i <= Len(exportRecords)
    /\ pc' = "catch"
    /\ error' = "AbortRequested"
    /\ UNCHANGED <<payCodeSet, unionCodeMap, exportRecords, i, curData,
                   summedRecords, written, rolledBack, closed,
                   exportRolledBack>>

\* Lines 207-250: no abort was requested; one pass of the loop.
ProcessRecord ==
    /\ pc = "loop"
    /\ i <= Len(exportRecords)
    /\ LET st == LoopBody([curData |-> curData, summedRecords |-> summedRecords,
                           written |-> written, rolledBack |-> rolledBack],
                          exportRecords[i], i, payCodeSet, unionCodeMap)
       IN  /\ curData' = st.curData
           /\ summedRecords' = st.summedRecords
           /\ written' = st.written
           /\ rolledBack' = st.rolledBack
    /\ i' = i + 1
    /\ UNCHANGED <<pc, payCodeSet, unionCodeMap, exportRecords, error, closed,
                   exportRolledBack>>

\* Line 252: after the last entry the table is written; control returns to
\* main, whose try block ends.
FinalWrite ==
    /\ pc = "loop"
    /\ i > Len(exportRecords)
    /\ written' = written \o WriteData(summedRecords)
    /\ pc' = "finally"
    /\ UNCHANGED <<payCodeSet, unionCodeMap, exportRecords, i, curData,
                   summedRecords, rolledBack, error, closed,
                   exportRolledBack>>

\* The exception raised by line 350, incrExpAPI.rollbackExport(exportBatchId),
\* when the handler caught e.  After a failure before line 344 incrExpAPI
\* is undefined and reading its property raises a TypeError; otherwise the
\* argument exportBatchId, a local of processExportRecords (line 194), is
\* not in scope in main and evaluating it raises a ReferenceError.  Either
\* way rollbackExport is not called.
HandlerRaises(e) ==
    IF e = "ConfigurationError" THEN "TypeError" ELSE "ReferenceError"

\* Lines 348-351: the handler logs the error and evaluates line 350, which
\* raises before rollbackExport is called.
MainCatch ==
    /\ pc = "catch"
    /\ error' = HandlerRaises(error)
    /\ pc' = "finally"
    /\ UNCHANGED <<payCodeSet, unionCodeMap, exportRecords, i, curData,
                   summedRecords, written, rolledBack, closed,
                   exportRolledBack>>

\* Mutant of MainFinally: the writer is closed at the end of the try block
\* only, so not after an exception.
MainFinallyOnSuccessOnly ==
    /\ pc = "finally"
    /\ closed' = IF error = Null THEN closed + 1 ELSE closed
    /\ pc' = "done"
    /\ UNCHANGED <<payCodeSet, unionCodeMap, exportRecords, i, curData,
                   summedRecords, written, rolledBack, error, exportRolledBack>>

\* Lines 352-354: the writer is closed.
MainFinally ==
    /\ pc = "finally"
    /\ closed' = closed + 1
    /\ pc' = "done"
    /\ UNCHANGED <<payCodeSet, unionCodeMap, exportRecords, i, curData,
                   summedRecords, written, rolledBack, error, exportRolledBack>>

Next ==
    \/ LoadReferenceData
    \/ LoadReferenceDataFails
    \/ ComputeDifferences
    \/ ComputeDifferencesFails
    \/ GetExportDetails
    \/ AbortRequested
    \/ ProcessRecord
    \/ FinalWrite
    \/ MainCatch
    \/ MainFinally

Spec == Init /\ [][Next]_vars

(***************************************************************************)
(* Vocabulary of the properties.                                           *)
(***************************************************************************)
\* The CompositeKey of a batch entry: employee, work date, work order, pay
\* code, effective rate and job code, as the entry arrives in the batch.
CompositeKey(e) ==
    <<e.DISPLAY_EMPLOYEE, e.WORK_DT, e.LD1, e.PAY_CODE, e.EFF_RATE, e.LD8>>

\* Entries of equal CompositeKey are contiguous in the batch.
Contiguous(batch) ==
    \A a, b, c \in 1..Len(batch) :
        (a < b /\ b < c /\ CompositeKey(batch[a]) = CompositeKey(batch[c]))
            => CompositeKey(batch[b]) = CompositeKey(batch[a])

\* The record filter as the specification words it: the pay code is valid
\* and the work order begins with M or F in either case.
Accepted(e) ==
    /\ e.PAY_CODE \in payCodeSet
    /\ Len(e.LD1) > 0
    /\ e.LD1[1] \in {"M", "m", "F", "f"}

\* Hours less transit of an entry.
NetHours(e) == e.HOURS - e.UNIT9

RECURSIVE SumNetHours(_, _, _)
\* The sum of the net hours of the entries a..b of the batch.
SumNetHours(batch, a, b) ==
    IF a > b THEN 0 ELSE NetHours(batch[a]) + SumNetHours(batch, a + 1, b)

\* The entries a..b form a maximal run of entries sharing one CompositeKey.
MaximalRun(batch, a, b) ==
    /\ a <= b
    /\ \A n \in a..b : CompositeKey(batch[n]) = CompositeKey(batch[a])
    /\ a = 1 \/ CompositeKey(batch[a - 1]) /= CompositeKey(batch[a])
    /\ b = Len(batch) \/ CompositeKey(batch[b + 1]) /= CompositeKey(batch[b])

\* The number a row shows in its HOURS column.
RowHours(row) == IF row.HOURS.neg THEN 0 - row.HOURS.int ELSE row.HOURS.int

\* The rows written for the run a..b: those of an aggregate created by an
\* entry of the run that carry the run's work order, employee, pay code and
\* job code.
RowsOfRun(a, b) ==
    { n \in 1..Len(written) :
        /\ written[n].srcIndex \in a..b
        /\ written[n].FWO = exportRecords[a].LD1
        /\ written[n].EMPLID = exportRecords[a].DISPLAY_EMPLOYEE
        /\ written[n].PAY_CODE = exportRecords[a].PAY_CODE
        /\ written[n].JOB_CODE = exportRecords[a].LD8 }

\* processExportRecords returned normally and no entry raised an error.
CompletedNormally == pc = "done" /\ error = Null /\ rolledBack = << >>

(***************************************************************************)
(* Properties.                                                             *)
(***************************************************************************)
\* C1: when the entries of equal CompositeKey are contiguous and the run
\* completes normally, every maximal run of accepted entries sharing a key
\* has exactly one row, whose hours are the sum of HOURS - UNIT9 over the
\* run, or no row when that sum is zero.
GroupingCorrectness ==
    (CompletedNormally /\ Contiguous(exportRecords)) =>
        \A a, b \in 1..Len(exportRecords) :
            (MaximalRun(exportRecords, a, b) /\ Accepted(exportRecords[a])) =>
                LET total == SumNetHours(exportRecords, a, b)
                IN  IF total = 0 THEN RowsOfRun(a, b) = {}
                    ELSE /\ Cardinality(RowsOfRun(a, b)) = 1
                         /\ \A n \in RowsOfRun(a, b) :
                                RowHours(written[n]) = total

\* A normal run over a contiguous batch with a run of two accepted entries
\* that sum to non-zero hours and another accepted run that sums to zero.
GroupingCorrectnessWitness ==
    /\ CompletedNormally
    /\ Contiguous(exportRecords)
    /\ \E a, b \in 1..Len(exportRecords) :
          /\ a < b
          /\ MaximalRun(exportRecords, a, b)
          /\ Accepted(exportRecords[a])
          /\ SumNetHours(exportRecords, a, b) /= 0
          /\ Cardinality(RowsOfRun(a, b)) = 1
    /\ \E a, b \in 1..Len(exportRecords) :
          /\ a < b
          /\ MaximalRun(exportRecords, a, b)
          /\ Accepted(exportRecords[a])
          /\ SumNetHours(exportRecords, a, b) = 0

\* C2: every row handed to the writer has non-zero hours.
ZeroSumSuppressed ==
    \A n \in 1..Len(written) : RowHours(written[n]) /= 0

\* A normal run over two accepted entries of one key that sum to zero: the
\* aggregate was finalized and nothing was written.
ZeroSumSuppressedWitness ==
    /\ CompletedNormally
    /\ Len(exportRecords) = 2
    /\ MaximalRun(exportRecords, 1, 2)
    /\ Accepted(exportRecords[1])
    /\ unionCodeMap.constructed
    /\ SumNetHours(exportRecords, 1, 2) = 0
    /\ Len(summedRecords) > 0
    /\ written = << >>

CompensationCancels ==
    (pc = "loop" /\ Len(summedRecords) = 2) =>
        summedRecords[1].hours + summedRecords[2].hours = 0

\* C5: when WORKED_ALLOCATED_REG is not a valid pay code, no aggregate and no
\* row carries that pay code: the compensating entry was dropped.
CompensatingEntryFiltered ==
    WORKED_ALLOCATED_REG \notin payCodeSet =>
        /\ \A n \in 1..Len(summedRecords) :
              summedRecords[n].payCode /= WORKED_ALLOCATED_REG
        /\ \A n \in 1..Len(written) :
              written[n].PAY_CODE /= WORKED_ALLOCATED_REG

\* The columns of the rows as the file shows them, the history fields left out.
FileRows(rows) ==
    [n \in 1..Len(rows) |->
        [HOURS |-> rows[n].HOURS, FWO |-> rows[n].FWO, EMPLID |-> rows[n].EMPLID,
         WORK_DATE |-> rows[n].WORK_DATE, PAY_CODE |-> rows[n].PAY_CODE,
         RATE |-> rows[n].RATE, JOB_CODE |-> rows[n].JOB_CODE,
         INTRANSIT |-> rows[n].INTRANSIT]]

\* r is the retraction of e: the same entry with HOURS and UNIT9 negated.
IsRetraction(e, r) ==
    r = [e EXCEPT !.HOURS = 0 - e.HOURS, !.UNIT9 = 0 - e.UNIT9]

\* The batch without its entries p and p + 1.
WithoutPair(batch, p) ==
    SubSeq(batch, 1, p - 1) \o SubSeq(batch, p + 2, Len(batch))

\* C6: an accepted entry and its retraction, adjacent in the batch, are a
\* no-op: the run writes the rows it writes for the batch without the pair.
RetractionPairIsNoOp ==
    CompletedNormally =>
        \A p \in 1..(Len(exportRecords) - 1) :
            ( /\ Accepted(exportRecords[p])
              /\ IsRetraction(exportRecords[p], exportRecords[p + 1]) )
            => FileRows(written) =
                 FileRows(RunOutput(WithoutPair(exportRecords, p),
                                    payCodeSet, unionCodeMap))

\* The hours the aggregate of entry e held before e was folded: those of the
\* aggregate of e's pay code when e continues the group of the entry before
\* it, and zero when e opens a group.
HoursBefore(e) ==
    IF i > 1 /\ CompositeKey(exportRecords[i - 1]) = CompositeKey(e)
    THEN LET same == { n \in 1..Len(summedRecords) :
                         summedRecords[n].payCode = e.PAY_CODE }
         IN  IF same = {} THEN 0 ELSE summedRecords[CHOOSE n \in same : TRUE].hours
    ELSE 0

NoUnionCode(employee) ==
    \/ employee \notin DOMAIN unionCodeMap.codes
    \/ unionCodeMap.codes[employee] = ""

\* The number a row shows in its RATE column.
RowRate(row) == IF row.RATE.neg THEN 0 - row.RATE.int ELSE row.RATE.int

\* C8: an aggregate created by the entry of an employee without union code
\* has rate 0, the compensating aggregate included, whatever the rate and
\* the pay code of the entry; the entry of an employee with a union code is
\* keyed by the rate it arrived with.
ZeroRateOverride ==
    unionCodeMap.constructed =>
        /\ \A n \in 1..Len(summedRecords) :
              LET agg == summedRecords[n]
                  e   == exportRecords[agg.srcIndex]
              IN  IF NoUnionCode(e.DISPLAY_EMPLOYEE)
                  THEN agg.rate = 0 /\ agg.key[5] = 0
                  ELSE agg.key[5] = e.EFF_RATE /\ agg.rate >= e.EFF_RATE
        /\ \A n \in 1..Len(written) :
              LET e == exportRecords[written[n].srcIndex]
              IN  IF NoUnionCode(e.DISPLAY_EMPLOYEE)
                  THEN RowRate(written[n]) = 0
                  ELSE RowRate(written[n]) >= e.EFF_RATE

\* A row of employee E1, who has a union code, was written with a non-zero
\* rate, and the double-rate entry of E2, who is not in the map, has opened
\* two aggregates of rate 0.
ZeroRateOverrideWitness ==
    /\ pc = "loop"
    /\ unionCodeMap.constructed
    /\ "E2" \notin DOMAIN unionCodeMap.codes
    /\ \E n \in 1..Len(written) :
          written[n].EMPLID = "E1" /\ RowRate(written[n]) = 80
    /\ Len(summedRecords) = 2
    /\ \A n \in 1..2 :
          /\ summedRecords[n].emplid = "E2"
          /\ summedRecords[n].rate = 0
          /\ exportRecords[summedRecords[n].srcIndex].EFF_RATE = 50

\* The effective rate of batch entry idx as it is folded.
FoldedRate(idx) ==
    IF NoUnionCode(exportRecords[idx].DISPLAY_EMPLOYEE) THEN 0
    ELSE exportRecords[idx].EFF_RATE

\* The rate the specification gives an aggregate of the pay code whose first
\* entry is batch entry idx.
ExpectedRate(payCode, idx) ==
    IF payCode \in {"GOLDEN_TIME", "HIGH_TIME", "PREMIUM_UPGRADE_PAY"}
    THEN 2 * FoldedRate(idx) ELSE FoldedRate(idx)

\* C9: the rate of an aggregate, open or written, is twice the effective
\* rate of its first entry when its pay code is a double-rate pay code and
\* that effective rate otherwise; only an entry with a double-rate pay code
\* creates a compensating aggregate.
DoubleRateApplied ==
    unionCodeMap.constructed =>
        /\ \A n \in 1..Len(summedRecords) :
              LET agg == summedRecords[n]
              IN  /\ agg.rate = ExpectedRate(agg.payCode, agg.srcIndex)
                  /\ agg.srcSynthetic =>
                        exportRecords[agg.srcIndex].PAY_CODE
                            \in {"GOLDEN_TIME", "HIGH_TIME", "PREMIUM_UPGRADE_PAY"}
        /\ \A n \in 1..Len(written) :
              /\ RowRate(written[n]) =
                    ExpectedRate(written[n].PAY_CODE, written[n].srcIndex)
              /\ written[n].srcSynthetic =>
                    exportRecords[written[n].srcIndex].PAY_CODE
                        \in {"GOLDEN_TIME", "HIGH_TIME", "PREMIUM_UPGRADE_PAY"}
        /\ ( /\ pc = "loop"
             /\ i > 1
             /\ Accepted(exportRecords[i - 1])
             /\ exportRecords[i - 1].PAY_CODE
                    \notin {"GOLDEN_TIME", "HIGH_TIME", "PREMIUM_UPGRADE_PAY"} )
           => Len(summedRecords) = 1

\* A GOLDEN_TIME row was written at twice the entry's rate of 40 together
\* with its compensating row at 40, and a REG entry has since opened a single
\* aggregate at its own rate.
DoubleRateAppliedWitness ==
    /\ pc = "loop"
    /\ unionCodeMap.constructed
    /\ \E n, m \in 1..Len(written) :
          /\ written[n].PAY_CODE = "GOLDEN_TIME"
          /\ RowRate(written[n]) = 80
          /\ written[m].PAY_CODE = WORKED_ALLOCATED_REG
          /\ written[m].srcSynthetic
          /\ written[m].srcIndex = written[n].srcIndex
          /\ RowRate(written[m]) = 40
    /\ Len(summedRecords) = 1
    /\ summedRecords[1].payCode = "REG"
    /\ summedRecords[1].rate = 40

Raises(e) ==
    /\ e.PAY_CODE \in payCodeSet
    /\ \/ e.LD1 = <<"null">>
       \/ Accepted(e) /\ ~unionCodeMap.constructed

\* The indexes of the entries before entry k whose processing raises.
RaisingBefore(k) ==
    LET Test(n) == Raises(exportRecords[n])
    IN  SelectSeq([n \in 1..(k - 1) |-> n], Test)

\* C11: an entry whose processing raises is rolled back and the run goes
\* on: the entries rolled back are exactly the raising entries passed so
\* far, a per-record error never becomes the error of the run, and a run
\* that was not aborted has passed every entry and written the aggregates
\* that were open after the last one.
PerRecordErrorContinues ==
    /\ rolledBack = RaisingBefore(i)
    /\ (rolledBack /= << >> /\ error = Null) => pc \in {"loop", "finally", "done"}
    /\ (error /= Null /\ exportRecords /= << >>)
          => i <= Len(exportRecords)
    /\ (pc \in {"finally", "done"} /\ error = Null) =>
          /\ i = Len(exportRecords) + 1
          /\ \A n \in 1..Len(summedRecords) :
                summedRecords[n].hours /= 0 =>
                    \E m \in 1..Len(written) :
                        /\ written[m].srcIndex = summedRecords[n].srcIndex
                        /\ written[m].PAY_CODE = summedRecords[n].payCode
                        /\ RowHours(written[m]) = summedRecords[n].hours

\* One entry raised and was rolled back, and an entry after it was folded
\* and written by the final writeData.
PerRecordErrorContinuesWitness ==
    /\ pc = "done"
    /\ error = Null
    /\ unionCodeMap.constructed
    /\ Len(rolledBack) = 1
    /\ rolledBack[1] < Len(exportRecords)
    /\ \E m \in 1..Len(written) : written[m].srcIndex > rolledBack[1]
    /\ \E n \in 1..Len(summedRecords) : summedRecords[n].srcIndex > rolledBack[1]

----------------------------------------------------------------------------
\* C12: whenever a fatal error has reached the top-level handler of main and
\* the handler has run, rollbackExport has been called for the batch of this
\* run.
FatalErrorRollsBackExport ==
    (pc \in {"finally", "done"} /\ error /= Null) => exportRolledBack

\* C13: the writer is closed at most once, it is closed exactly once when
\* main has ended, whatever the path (normal, per-record errors, abort, fatal
\* error, the error raised by the handler itself), and until main has ended
\* the writer is still open and a step towards the end is possible.
WriterClosedExactlyOnce ==
    /\ closed \in {0, 1}
    /\ pc = "done" => closed = 1
    /\ pc /= "done" => (closed = 0 /\ ENABLED Next)

\* C13 witness: main has ended after its handler raised an error of its own
\* over a batch with a rolled-back entry, and the writer is closed.
WriterClosedExactlyOnceWitness ==
    /\ pc = "done"
    /\ error = "ReferenceError"
    /\ rolledBack /= << >>
    /\ closed = 1

\* The abort was observed before entry i of the batch.
AbortObserved ==
    /\ pc \in {"catch", "finally", "done"}
    /\ exportRecords /= << >>
    /\ i <= Len(exportRecords)

\* C14: the abort can be observed before every entry, and from the step that
\* observes it before entry i on, i stays, no entry is folded or rolled back
\* and the rows written stay as they are.
AbortStopsProcessing ==
    [][/\ (pc = "loop" /\ i <= Len(exportRecords)) => ENABLED AbortRequested
       /\ AbortObserved' =>
              /\ i' = i
              /\ curData' = curData
              /\ summedRecords' = summedRecords
              /\ rolledBack' = rolledBack
              /\ written' = written]_vars

\* C14 witness: main has ended after an abort observed before an entry the
\* filter would accept, later than the first, rows being written already.
AbortStopsProcessingWitness ==
    /\ pc = "done"
    /\ AbortObserved
    /\ i > 1
    /\ written /= << >>
    /\ Accepted(exportRecords[i])

\* C15: in every batch sorted by the order fields requested from the diff
\* collaborator, the entries of equal CompositeKey are contiguous.
SortedBatchIsContiguous == Contiguous(exportRecords)

\* The key columns of a written row.
RowKey(row) ==
    <<row.EMPLID, row.WORK_DATE, row.FWO, row.PAY_CODE, row.RATE, row.JOB_CODE>>

\* C16: over a batch whose entries of equal CompositeKey are contiguous, no
\* two rows written carry the same key columns.
OneRowPerKey ==
    Contiguous(exportRecords) =>
        \A a, b \in 1..Len(written) :
            RowKey(written[a]) = RowKey(written[b]) => a = b

\* Batch entry n contributes to the key of the row: the entry is folded and
\* the row carries the key columns of the entry's own aggregate or, for an
\* entry with a double-rate pay code, of its compensating aggregate.
ContributesTo(n, row) ==
    LET e == exportRecords[n]
    IN  /\ Accepted(e)
        /\ unionCodeMap.constructed
        /\ row.EMPLID = e.DISPLAY_EMPLOYEE
        /\ row.WORK_DATE = FormatDate(e.WORK_DT)
        /\ row.FWO = e.LD1
        /\ row.JOB_CODE = e.LD8
        /\ \/ /\ row.PAY_CODE = e.PAY_CODE
              /\ RowRate(row) = ExpectedRate(e.PAY_CODE, n)
           \/ /\ e.PAY_CODE \in {"GOLDEN_TIME", "HIGH_TIME", "PREMIUM_UPGRADE_PAY"}
              /\ row.PAY_CODE = "WORKED_ALLOCATED_REG"
              /\ RowRate(row) = FoldedRate(n)

\* The first batch entry that contributes to the key of the row.
FirstOccurrence(row) ==
    CHOOSE n \in 1..Len(exportRecords) :
        /\ ContributesTo(n, row)
        /\ \A m \in 1..(n - 1) : ~ContributesTo(m, row)

\* C17: of two rows written, the one whose key first occurs earlier in the
\* batch is written first.
EmissionFollowsFirstOccurrence ==
    \A a, b \in 1..Len(written) :
        FirstOccurrence(written[a]) < FirstOccurrence(written[b]) => a < b

\* What an aggregate keeps from its creation: its key, rate, work order,
\* employee, work date, pay code and job code.
Identity(agg) ==
    <<agg.key, agg.rate, agg.fwo, agg.emplid, agg.workDt, agg.payCode,
      agg.jobCode>>

\* C18: when the loop passes an entry that continues the group of the entry
\* before it, every aggregate that was open is still open in its place and
\* has kept its key, rate, work order, employee, work date, pay code and
\* job code.
FoldKeepsIdentity ==
    [][(/\ pc = "loop"
        /\ i' = i + 1
        /\ i > 1
        /\ CompositeKey(exportRecords[i]) = CompositeKey(exportRecords[i - 1]))
       => /\ Len(summedRecords') >= Len(summedRecords)
          /\ \A n \in 1..Len(summedRecords) :
                Identity(summedRecords'[n]) = Identity(summedRecords[n])]_vars

\* C18 witness: the second of two accepted double-rate entries of one key
\* has been folded into the aggregate the first created, whose rate is not
\* the rate the second entry carries, and the compensating aggregate is
\* open beside it.
FoldKeepsIdentityWitness ==
    /\ pc = "loop"
    /\ i = 3
    /\ CompositeKey(exportRecords[2]) = CompositeKey(exportRecords[1])
    /\ Accepted(exportRecords[2])
    /\ exportRecords[2].PAY_CODE = "GOLDEN_TIME"
    /\ Len(summedRecords) = 2
    /\ summedRecords[1].srcIndex = 1
    /\ summedRecords[1].rate /= exportRecords[2].EFF_RATE
    /\ summedRecords[1].hours = NetHours(exportRecords[1]) + NetHours(exportRecords[2])
    /\ summedRecords[1].hours /= 0

\* The first entry of the group that is open before entry k: the entries
\* from it to entry k - 1 share one CompositeKey.
GroupStart(k) ==
    CHOOSE g \in 1..(k - 1) :
        /\ \A n \in g..(k - 1) :
              CompositeKey(exportRecords[n]) = CompositeKey(exportRecords[k - 1])
        /\ g = 1 \/ CompositeKey(exportRecords[g - 1]) /= CompositeKey(exportRecords[g])

\* C19: once the abort is observed before entry i, no aggregate that is open
\* has a row, and the rows written are those of a complete run over the
\* entries before the open group alone: the entries of the open group
\* appear in no row.
AbortSkipsFinalFlush ==
    AbortObserved =>
        /\ \A n \in 1..Len(summedRecords) : \A r \in 1..Len(written) :
              written[r].srcIndex < summedRecords[n].srcIndex
        /\ i = 1 => written = << >>
        /\ i > 1 =>
              /\ written = RunOutput(SubSeq(exportRecords, 1, GroupStart(i) - 1),
                                     payCodeSet, unionCodeMap)
              /\ \A n \in 1..Len(summedRecords) :
                    summedRecords[n].srcIndex >= GroupStart(i)

\* C19 witness: main has ended after an abort observed while a double-rate
\* aggregate and its compensating aggregate were open with hours to write,
\* rows of an earlier group being written.
AbortSkipsFinalFlushWitness ==
    /\ pc = "done"
    /\ AbortObserved
    /\ Len(summedRecords) = 2
    /\ summedRecords[1].hours /= 0
    /\ summedRecords[2].hours /= 0
    /\ summedRecords[2].srcSynthetic
    /\ written /= << >>

RECURSIVE SumFolds(_, _)
\* The number of records added to the aggregates n.. of the table.
SumFolds(data, n) ==
    IF n > Len(data) THEN 0 ELSE data[n].folds + SumFolds(data, n + 1)

\* The number of synthetic aggregates of the table.
Synthetic(data) == { n \in 1..Len(data) : data[n].srcSynthetic }

\* C20: a pass of the loop adds at most two records to the table, the entry
\* and one compensating record, and none when the filter rejects the entry;
\* a table holds at most one compensating aggregate, created beside the
\* double-rate aggregate of its entry, and its pay code is
\* WORKED_ALLOCATED_REG, which is not a double-rate pay code.
CompensationTerminates ==
    [][(pc = "loop" /\ i' = i + 1) =>
        LET before == IF curData' = curData THEN SumFolds(summedRecords, 1) ELSE 0
            added  == SumFolds(summedRecords', 1) - before
            e      == exportRecords[i]
        IN  /\ added \in 0..2
            /\ ~Accepted(e) => added = 0
            /\ (Accepted(e) /\ unionCodeMap.constructed) =>
                  added = IF e.PAY_CODE \in {"GOLDEN_TIME", "HIGH_TIME", "PREMIUM_UPGRADE_PAY"}
                          THEN 2 ELSE 1
            /\ Cardinality(Synthetic(summedRecords')) <= 1
            /\ \A n \in Synthetic(summedRecords') :
                  /\ summedRecords'[n].payCode = "WORKED_ALLOCATED_REG"
                  /\ summedRecords'[n].payCode
                        \notin {"GOLDEN_TIME", "HIGH_TIME", "PREMIUM_UPGRADE_PAY"}
                  /\ n = 2
                  /\ ~summedRecords'[1].srcSynthetic]_vars

\* C20 witness: two accepted double-rate entries of one key have been
\* passed; four records were added to the table, two to the double-rate
\* aggregate and two to the one compensating aggregate.
CompensationTerminatesWitness ==
    /\ pc = "loop"
    /\ i = 3
    /\ Accepted(exportRecords[1])
    /\ Accepted(exportRecords[2])
    /\ exportRecords[1].PAY_CODE = "HIGH_TIME"
    /\ CompositeKey(exportRecords[2]) = CompositeKey(exportRecords[1])
    /\ Len(summedRecords) = 2
    /\ summedRecords[1].folds = 2
    /\ summedRecords[2].folds = 2
    /\ summedRecords[2].srcSynthetic


====
